---- MODULE Spec2Model ----
(***************************************************************************)
(* A model of package gu (gu.go): the main loop Run and the dispatcher     *)
(* update, together with a small closed program implementing the State,   *)
(* In, Out, Waiter, Ready and Init interfaces.                             *)
(*                                                                         *)
(* The loop thread is modelled by pc/idx/ioRest/in/ret (in holds the      *)
(* event received and not yet dispatched, if any); every                  *)
(* `go output.Io(inChan)` is an element of goroutines.  The variables     *)
(* dispatched, sent, ran, disp and iters are history variables: they      *)
(* record what the loop did and are never read by the model of the code.  *)
(***************************************************************************)
EXTENDS Integers, Sequences, FiniteSets, TLC

VARIABLES state, outputs, inChan, pc, idx, ioRest, in, ret, goroutines,
          dispatched, sent, ran, disp, iters

vars == <<state, outputs, inChan, pc, idx, ioRest, in, ret, goroutines,
          dispatched, sent, ran, disp, iters>>

(* ---------------- bounds ---------------- *)

\* longest waiter list of an initial state
MaxWaiters == 2
\* longest initial effect list
MaxOuts == 2
\* number of events the loop may receive
MaxIter == 3

(* ---------------- the program plugged into the interfaces ------------- *)

\* error(nil)
Nil == "nil"

\* implementations of In
Ins == {"Tick", "Response", "Timeout", "Fail"}

\* implementations of Waiter
WaiterKinds == {"P", "Q"}

\* implementations of Out
Outs == {"FastNone", "FastTick", "FastTwo",
         "SlowResponse", "SlowTimeout", "SlowFail", "SlowHang", "SlowTwo"}

\* Out.Fast
Fast(o) == o \in {"FastNone", "FastTick", "FastTwo"}

\* Out.Io: the events the action sends down the channel, in order
Emits(o) ==
    CASE o = "FastNone"     -> <<>>
      [] o = "FastTick"     -> <<"Tick">>
      [] o = "FastTwo"      -> <<"Tick", "Tick">>
      [] o = "SlowResponse" -> <<"Response">>
      [] o = "SlowTimeout"  -> <<"Timeout">>
      [] o = "SlowFail"     -> <<"Fail">>
      [] o = "SlowHang"     -> <<>>
      [] o = "SlowTwo"      -> <<"Tick", "Tick">>

\* Out.Io: whether the action ever returns
Returns(o) == o # "SlowHang"

\* Waiter.Expected: P awaits a Response, Q a Response or a Timeout
Expected(waiter, i) ==
    [ready    |-> [waiter |-> waiter, in |-> i],
     relevant |-> \/ waiter = "P" /\ i = "Response"
                  \/ waiter = "Q" /\ i \in {"Response", "Timeout"}]

RECURSIVE RemoveFirst(_, _)
RemoveFirst(s, w) ==
    IF s = <<>> THEN <<>>
    ELSE IF Head(s) = w THEN Tail(s)
    ELSE <<Head(s)>> \o RemoveFirst(Tail(s), w)

RECURSIVE ReplaceFirst(_, _, _)
ReplaceFirst(s, w, v) ==
    IF s = <<>> THEN <<>>
    ELSE IF Head(s) = w THEN <<v>> \o Tail(s)
    ELSE <<Head(s)>> \o ReplaceFirst(Tail(s), w, v)

\* Ready.Update
ReadyUpdate(ready, s) ==
    CASE ready.waiter = "P" ->
            [state   |-> [s EXCEPT !.waiters = RemoveFirst(@, "P")],
             outputs |-> <<"SlowTimeout">>]
      [] ready.waiter = "Q" /\ ready.in = "Timeout" ->
            [state   |-> [s EXCEPT !.fatalErr = "timeout"],
             outputs |-> <<>>]
      [] ready.waiter = "Q" /\ ready.in # "Timeout" ->
            [state   |-> [s EXCEPT !.waiters = ReplaceFirst(@, "Q", "P")],
             outputs |-> <<"FastNone", "SlowFail">>]

\* In.Update
InUpdate(i, s) ==
    CASE i = "Tick" ->
            [state |-> [s EXCEPT !.counter = @ + 1], outputs |-> <<>>]
      [] i = "Response" ->
            [state |-> s, outputs |-> <<"FastTick">>]
      [] i = "Timeout" ->
            [state |-> s, outputs |-> <<"SlowResponse", "SlowHang">>]
      [] i = "Fail" ->
            [state |-> [s EXCEPT !.fatalErr = "failed"],
             outputs |-> <<"FastNone">>]

\* State.Waiters
Waiters(s) == s.waiters

\* State.FatalErr
FatalErr(s) == s.fatalErr

(* ---------------- update ---------------- *)

\* update, from waiter number i on.  queried lists the waiters whose
\* Expected was called, invoked the Update methods that were called.
RECURSIVE updateFrom(_, _, _)
updateFrom(s, i, k) ==
    IF k > Len(Waiters(s))
    THEN [result  |-> InUpdate(i, s),
          queried |-> <<>>,
          invoked |-> <<[kind |-> "In", waiter |-> 0]>>]
    ELSE LET e == Expected(Waiters(s)[k], i)
         IN  IF e.relevant
             THEN [result  |-> ReadyUpdate(e.ready, s),
                   queried |-> <<k>>,
                   invoked |-> <<[kind |-> "Ready", waiter |-> k]>>]
             ELSE LET r == updateFrom(s, i, k + 1)
                  IN  [r EXCEPT !.queried = <<k>> \o @]

\* update with the range loop running from the last waiter to the first
RECURSIVE updateDown(_, _, _)
updateDown(s, i, k) ==
    IF k < 1
    THEN [result  |-> InUpdate(i, s),
          queried |-> <<>>,
          invoked |-> <<[kind |-> "In", waiter |-> 0]>>]
    ELSE LET e == Expected(Waiters(s)[k], i)
         IN  IF e.relevant
             THEN [result  |-> ReadyUpdate(e.ready, s),
                   queried |-> <<k>>,
                   invoked |-> <<[kind |-> "Ready", waiter |-> k]>>]
             ELSE LET r == updateDown(s, i, k - 1)
                  IN  [r EXCEPT !.queried = <<k>> \o @]

update_lastMatch(s, i) == updateDown(s, i, Len(Waiters(s)))

\* update without its last line: an unclaimed event changes nothing
update_dropUnclaimed(s, i) ==
    LET u == updateFrom(s, i, 1)
    IN  IF u.invoked[1].kind = "In"
        THEN [u EXCEPT !.result = [state |-> s, outputs |-> <<>>],
                       !.invoked = <<>>]
        ELSE u

\* update without the return in the loop: each claiming waiter's
\* Ready.Update runs, and then the event's own Update
RECURSIVE updateThrough(_, _, _, _)
updateThrough(s, i, k, acc) ==
    IF k > Len(Waiters(s))
    THEN [result  |-> InUpdate(i, s),
          queried |-> acc.queried,
          invoked |-> Append(acc.invoked, [kind |-> "In", waiter |-> 0])]
    ELSE LET e == Expected(Waiters(s)[k], i)
         IN  updateThrough(s, i, k + 1,
                 [queried |-> Append(acc.queried, k),
                  invoked |-> IF e.relevant
                              THEN Append(acc.invoked,
                                       [kind |-> "Ready", waiter |-> k])
                              ELSE acc.invoked])

update_noReturn(s, i) ==
    updateThrough(s, i, 1, [queried |-> <<>>, invoked |-> <<>>])

\* update that takes the waiters it has offered the event to off the list
\* before it calls the event's own Update
update_consumesWaiters(s, i) ==
    LET u == updateFrom(s, i, 1)
    IN  IF u.invoked[1].kind = "In"
        THEN [u EXCEPT !.result = InUpdate(i, [s EXCEPT !.waiters = <<>>])]
        ELSE u

update(s, i) == updateFrom(s, i, 1)

(* ---------------- Run ---------------- *)

\* make(chan In, 2)
ChanCap_two == 1 + 1

\* make(chan In, 1)
ChanCap == 1

\* the loop condition with the comparison turned round
LoopCond_inverted(s) == FatalErr(s) # Nil

\* a loop without a condition
LoopCond_forever(s) == TRUE

\* the condition of the for loop
LoopCond(s) == FatalErr(s) = Nil

\* every Io started with go, whatever Fast() says
RunsInline_never(o) == FALSE

\* every Io called on the loop thread, whatever Fast() says
RunsInline_always(o) == TRUE

\* if output.Fast() { output.Io(inChan) } else { go output.Io(inChan) }
RunsInline(o) == Fast(o)

\* a range loop that steps over every other output
NextIdx_skip(i) == i + 2

\* for _, output := range outputs: the position after position i
NextIdx(i) == i + 1

\* where the loop thread is once it stands at position i of outputs
AtIdx(i) == IF i > Len(outputs) THEN "recv" ELSE "outs"

\* the iteration the loop is in: the number of times its body was entered
Iter == iters

SeqsUpTo(S, n) == UNION {[1..k -> S] : k \in 0..n}

Init ==
    /\ \E ws \in SeqsUpTo(WaiterKinds, MaxWaiters), f \in {Nil, "broken"} :
           state = [waiters |-> ws, fatalErr |-> f, counter |-> 0]
    /\ outputs \in SeqsUpTo(Outs, MaxOuts)
    /\ inChan = <<>>
    /\ pc = "loop"
    /\ idx = 1
    /\ ioRest = <<>>
    /\ in = <<>>
    /\ ret = Nil
    /\ goroutines = {}
    /\ dispatched = <<>>
    /\ sent = <<>>
    /\ ran = <<>>
    /\ disp = <<>>
    /\ iters = 0

\* for state.FatalErr() == nil { ... } return state.FatalErr()
LoopCheck ==
    /\ pc = "loop"
    /\ IF LoopCond(state)
       THEN /\ pc' = AtIdx(1)
            /\ idx' = 1
            /\ ret' = ret
            /\ iters' = iters + 1
       ELSE /\ pc' = "done"
            /\ idx' = idx
            /\ ret' = FatalErr(state)
            /\ iters' = iters
    /\ UNCHANGED <<state, outputs, inChan, ioRest, in, goroutines,
                   dispatched, sent, ran, disp>>

\* output.Io(inChan) is called on the loop thread
StartFast ==
    /\ pc = "outs"
    /\ RunsInline(outputs[idx])
    /\ pc' = "io"
    /\ ioRest' = Emits(outputs[idx])
    /\ ran' = Append(ran, idx)
    /\ UNCHANGED <<state, outputs, inChan, idx, in, ret, goroutines,
                   dispatched, sent, disp, iters>>

\* go output.Io(inChan)
StartSlow ==
    /\ pc = "outs"
    /\ ~RunsInline(outputs[idx])
    /\ goroutines' = goroutines \cup
           {[iter |-> Iter, idx |-> idx, out |-> outputs[idx],
             rest |-> Emits(outputs[idx])]}
    /\ ran' = Append(ran, idx)
    /\ idx' = NextIdx(idx)
    /\ pc' = AtIdx(NextIdx(idx))
    /\ UNCHANGED <<state, outputs, inChan, ioRest, in, ret,
                   dispatched, sent, disp, iters>>

\* a message as it travels: the event and the Io call that sent it
Msg(i, it, k, o) == [in |-> i, iter |-> it, idx |-> k, out |-> o]

\* inChan <- in, inside an Io running on the loop thread
FastSend ==
    /\ pc = "io"
    /\ ioRest # <<>>
    /\ Len(inChan) < ChanCap
    /\ inChan' = Append(inChan, Msg(Head(ioRest), Iter, idx, outputs[idx]))
    /\ sent' = Append(sent, Msg(Head(ioRest), Iter, idx, outputs[idx]))
    /\ ioRest' = Tail(ioRest)
    /\ UNCHANGED <<state, outputs, pc, idx, in, ret, goroutines,
                   dispatched, ran, disp, iters>>

\* the Io running on the loop thread returns
FastReturn ==
    /\ pc = "io"
    /\ ioRest = <<>>
    /\ Returns(outputs[idx])
    /\ idx' = NextIdx(idx)
    /\ pc' = AtIdx(NextIdx(idx))
    /\ UNCHANGED <<state, outputs, inChan, ioRest, in, ret, goroutines,
                   dispatched, sent, ran, disp, iters>>

\* what is left of the goroutine running g once it has sent the head of
\* g.rest: an Io that has nothing more to send and returns is gone
AfterSend(g) ==
    IF Tail(g.rest) = <<>> /\ Returns(g.out)
    THEN {}
    ELSE {[g EXCEPT !.rest = Tail(@)]}

\* inChan <- in, inside an Io running in its own goroutine; the return of
\* the Io after its last send is part of the step
SlowSend ==
    \E g \in goroutines :
        /\ g.rest # <<>>
        /\ Len(inChan) < ChanCap
        /\ inChan' = Append(inChan, Msg(Head(g.rest), g.iter, g.idx, g.out))
        /\ sent' = Append(sent, Msg(Head(g.rest), g.iter, g.idx, g.out))
        /\ goroutines' = (goroutines \ {g}) \cup AfterSend(g)
        /\ UNCHANGED <<state, outputs, pc, idx, ioRest, in, ret,
                       dispatched, ran, disp, iters>>

\* the head of the channel is read but left in the channel
Receive_peek ==
    /\ pc = "recv"
    /\ inChan # <<>>
    /\ Len(dispatched) < MaxIter
    /\ in' = <<Head(inChan)>>
    /\ pc' = "update"
    /\ UNCHANGED <<state, outputs, inChan, idx, ioRest, ret, goroutines,
                   dispatched, sent, ran, disp, iters>>

\* in := <-inChan
Receive ==
    /\ pc = "recv"
    /\ inChan # <<>>
    /\ Len(dispatched) < MaxIter
    /\ in' = <<Head(inChan)>>
    /\ inChan' = Tail(inChan)
    /\ pc' = "update"
    /\ UNCHANGED <<state, outputs, idx, ioRest, ret, goroutines,
                   dispatched, sent, ran, disp, iters>>

\* state, outputs := update(state, in): the results go to new variables
\* of the loop body and the loop's own state and outputs stay as they were
Dispatch_shadowed ==
    /\ pc = "update"
    /\ LET u == update(state, in[1].in)
       IN  disp' = <<[S |-> state, E |-> in[1].in, queried |-> u.queried,
                      invoked |-> u.invoked, result |-> u.result]>>
    /\ dispatched' = Append(dispatched, in[1])
    /\ ran' = <<>>
    /\ in' = <<>>
    /\ pc' = "loop"
    /\ UNCHANGED <<state, outputs, inChan, idx, ioRest, ret, goroutines,
                   sent, iters>>

\* state, outputs = update(state, in)
Dispatch ==
    /\ pc = "update"
    /\ LET u == update(state, in[1].in)
       IN  /\ state' = u.result.state
           /\ outputs' = u.result.outputs
           /\ disp' = <<[S |-> state, E |-> in[1].in, queried |-> u.queried,
                         invoked |-> u.invoked, result |-> u.result]>>
    /\ dispatched' = Append(dispatched, in[1])
    /\ ran' = <<>>
    /\ in' = <<>>
    /\ pc' = "loop"
    /\ UNCHANGED <<inChan, idx, ioRest, ret, goroutines, sent, iters>>

Next ==
    \/ LoopCheck
    \/ StartFast
    \/ StartSlow
    \/ FastSend
    \/ FastReturn
    \/ SlowSend
    \/ Receive
    \/ Dispatch

Spec == Init /\ [][Next]_vars

\* the steps of the goroutine that called Run
LoopStep ==
    \/ LoopCheck
    \/ StartFast
    \/ StartSlow
    \/ FastSend
    \/ FastReturn
    \/ Receive
    \/ Dispatch

\* the Go scheduler runs every goroutine that can take a step
FairSpec ==
    /\ Spec
    /\ WF_vars(LoopStep)
    /\ WF_vars(SlowSend)

(* ---------------- dispatch: claims C1 to C3 ---------------- *)

\* the positions of the waiters of s that claim event i
Claimers(s, i) ==
    {k \in 1..Len(s.waiters) : Expected(s.waiters[k], i).relevant}

Least(S) == CHOOSE k \in S : \A j \in S : k <= j

UpTo(n) == [j \in 1..n |-> j]

\* C1: when some waiter claims the event, the dispatch returns what the
\* Ready of the lowest-numbered claiming waiter returns on the state it was
\* given, the waiters up to that one were queried in stored order, and no
\* later waiter was queried.
C1_FirstMatchWins ==
    disp # <<>> =>
        LET d == disp[1]
            c == Claimers(d.S, d.E)
        IN  c # {} =>
                LET k == Least(c)
                IN  /\ d.result =
                           ReadyUpdate(Expected(d.S.waiters[k], d.E).ready, d.S)
                    /\ d.queried = UpTo(k)
                    /\ state = d.result.state
                    /\ outputs = d.result.outputs

\* two different waiters claimed the dispatched event
C1_Witness ==
    /\ disp # <<>>
    /\ \E j, k \in Claimers(disp[1].S, disp[1].E) :
           disp[1].S.waiters[j] # disp[1].S.waiters[k]

\* C2: when no waiter claims the event, the dispatch returns what the
\* event's own Update returns on the state it was given, and every waiter
\* was queried once, in stored order.
C2_DefaultPath ==
    disp # <<>> =>
        LET d == disp[1]
        IN  Claimers(d.S, d.E) = {} =>
                /\ d.result = InUpdate(d.E, d.S)
                /\ d.queried = UpTo(Len(d.S.waiters))
                /\ state = d.result.state
                /\ outputs = d.result.outputs

\* an event went unclaimed past two waiters
C2_Witness ==
    /\ disp # <<>>
    /\ Claimers(disp[1].S, disp[1].E) = {}
    /\ Len(disp[1].S.waiters) = 2
    /\ disp[1].S.waiters[1] # disp[1].S.waiters[2]

\* an event went unclaimed with no waiter at all
C2_WitnessEmpty ==
    /\ disp # <<>>
    /\ disp[1].S.waiters = <<>>

\* C3: every dispatch invokes exactly one Update: that of the Ready of one
\* claiming waiter when some waiter claims the event, and the event's own
\* only when none does.
C3_OneTransition ==
    disp # <<>> =>
        LET d == disp[1]
            c == Claimers(d.S, d.E)
        IN  /\ Len(d.invoked) = 1
            /\ c # {} => /\ d.invoked[1].kind = "Ready"
                         /\ d.invoked[1].waiter \in c
            /\ c = {} => d.invoked[1].kind = "In"

\* an event claimed by two waiters was dispatched
C3_Witness ==
    /\ disp # <<>>
    /\ Cardinality(Claimers(disp[1].S, disp[1].E)) = 2


(* ---------------- the end of the loop: claims C4 and C5 ---------------- *)

\* C4: Run has returned only if the state's fatal error is set, and then
\* the value returned is that fatal error, which is not nil; as long as Run
\* has not returned nothing has been returned.
C4_ReturnsFatalErr ==
    /\ pc = "done" => /\ FatalErr(state) # Nil
                      /\ ret = FatalErr(state)
                      /\ ret # Nil
    /\ pc # "done" => ret = Nil

\* Run has returned after dispatching events
C4_Witness ==
    /\ pc = "done"
    /\ Len(dispatched) >= 2

\* C5 (safety part): while the fatal error is set the loop is at its
\* condition or has returned, and the dispatch that set it is the last one:
\* it was given a healthy state and nothing has been dispatched since.
C5_NoStepPastFatal ==
    FatalErr(state) # Nil =>
        /\ pc \in {"loop", "done"}
        /\ in = <<>>
        /\ dispatched # <<>> => /\ FatalErr(disp[1].S) = Nil
                                /\ state = disp[1].result.state

\* C5: the loop ends exactly when the fatal error is set: no step of the
\* loop body is taken in a state whose fatal error is set, and once it is
\* set Run returns.
C5_StopsOnFatal ==
    /\ []C5_NoStepPastFatal
    /\ (FatalErr(state) # Nil) ~> (pc = "done")

\* the second dispatch set the fatal error while goroutines were running
C5_Witness ==
    /\ pc = "done"
    /\ Len(dispatched) = 2
    /\ goroutines # {}

(* ---------------- effects and events: claims C6 to C10 ---------------- *)

\* C6 as claimed: every effect of the current effect list has been run once
\* the loop is past its effect list, also when the loop has ended.
C6_EveryEffectRuns ==
    pc \in {"recv", "update", "done"} => ran = UpTo(Len(outputs))

\* C6 as amended: the effects of the current list are started at most once,
\* in list order and without gaps, only in the iteration that follows the
\* dispatch (or the initialisation) that returned them; all of them have
\* been started once the loop receives; and none is started when they were
\* returned together with a fatal error.
C6_EffectsRunOnce ==
    /\ Len(ran) <= Len(outputs)
    /\ ran = UpTo(Len(ran))
    /\ pc \in {"recv", "update"} => ran = UpTo(Len(outputs))
    /\ pc = "outs" => Len(ran) = idx - 1
    /\ pc = "io" => Len(ran) = idx
    /\ FatalErr(state) # Nil => ran = <<>>
    /\ dispatched # <<>> => outputs = disp[1].result.outputs
    /\ ran # <<>> => iters = Len(dispatched) + 1
    /\ \A g \in goroutines :
           /\ g.iter <= iters
           /\ g.iter = iters /\ Len(dispatched) < iters =>
                  /\ g.idx <= Len(ran)
                  /\ g.out = outputs[g.idx]

\* both effects returned by a dispatch have been started and the loop
\* waits for an event
C6_Witness ==
    /\ pc = "recv"
    /\ dispatched # <<>>
    /\ ran = <<1, 2>>

\* C7: the events sent on the channel are, in the order they were sent, the
\* events dispatched, then the one received and not yet dispatched, then
\* those still in the channel; an iteration that is past its dispatch has
\* dispatched one event and one that is not has dispatched none.
C7_EventsSerialized ==
    /\ sent = dispatched \o in \o inChan
    /\ Len(in) <= 1
    /\ in # <<>> <=> pc = "update"
    /\ pc \in {"outs", "io", "recv", "update"} => Len(dispatched) = iters - 1
    /\ pc \in {"loop", "done"} => Len(dispatched) = iters

\* three events were dispatched while a fourth waits in the channel
C7_Witness ==
    /\ Len(dispatched) = 3
    /\ inChan # <<>>

\* C8: a fast effect's Io runs on the loop thread only, and while it has
\* not returned no later effect of the list has been started and the loop
\* is not receiving.
C8_FastRunsInline ==
    /\ \A g \in goroutines : ~Fast(g.out)
    /\ pc = "io" => /\ ran # <<>>
                    /\ ran[Len(ran)] = idx
    /\ pc \in {"recv", "update"} => ioRest = <<>>

\* the loop is held inside the first of two effects, a fast one that has
\* not finished sending
C8_Witness ==
    /\ pc = "io"
    /\ idx = 1
    /\ Len(outputs) = 2
    /\ ioRest # <<>>
    /\ inChan # <<>>

\* the loop thread never runs the Io of a slow effect
C9_NeverInsideSlow ==
    pc = "io" => Fast(outputs[idx])

\* a step of the loop thread from a slow effect goes on to the next
\* position with the effect's Io started and nothing of it done
C9_StartsAndGoesOn ==
    (pc = "outs" /\ ~Fast(outputs[idx]) /\ (pc' # pc \/ idx' # idx)) =>
        /\ idx' = idx + 1
        /\ pc' = IF idx + 1 > Len(outputs) THEN "recv" ELSE "outs"
        /\ [iter |-> iters, idx |-> idx, out |-> outputs[idx],
            rest |-> Emits(outputs[idx])] \in goroutines'

\* C9: the loop never waits for a slow effect: it is never inside a slow
\* effect's Io, and from a slow effect it steps straight to the next
\* position of the list, or to the receive, leaving the Io running.
C9_SlowNeverStalls ==
    /\ []C9_NeverInsideSlow
    /\ [][C9_StartsAndGoesOn]_vars

\* two events were dispatched after a slow effect that never returns was
\* started in the first iteration
C9_Witness ==
    /\ Len(dispatched) = 2
    /\ \E g \in goroutines : g.iter = 1 /\ ~Returns(g.out)

\* the events sent and not yet dispatched
Outstanding == in \o inChan

\* C10: an event sent by a fast effect is dispatched in the iteration in
\* which it was sent: while it is outstanding the loop is still in that
\* iteration, before its dispatch, so no effect returned by that dispatch
\* or by a later one has been looked at.
C10_FastEventFirst ==
    \A k \in 1..Len(Outstanding) :
        Fast(Outstanding[k].out) =>
            /\ Outstanding[k].iter = iters
            /\ pc \in {"io", "outs", "recv", "update"}
            /\ Outstanding[k].idx <= Len(ran)
            /\ Outstanding[k].out = outputs[Outstanding[k].idx]

\* in the second iteration the event of a fast effect is about to be
\* dispatched while a slow effect of the first iteration still has an
\* event to send
C10_Witness ==
    /\ pc = "update"
    /\ Fast(in[1].out)
    /\ iters = 2
    /\ \E g \in goroutines : g.iter = 1 /\ g.rest # <<>>

(* ---------------- events of slow effects: claim C11 ---------------- *)

\* the Io of the slow effect at position k of iteration it is running and
\* is one that sends exactly one event
SlowOneStarted(it, k) ==
    \E g \in goroutines :
        /\ g.iter = it
        /\ g.idx = k
        /\ Len(Emits(g.out)) = 1

\* the dispatches of events sent by the effect at position k of iteration it
DispatchesOf(it, k) ==
    {n \in 1..Len(dispatched) :
        dispatched[n].iter = it /\ dispatched[n].idx = k}

\* the loop has received as many events as the model lets it
AtBound == Len(dispatched) = MaxIter

\* the longest effect list: an initial one, or the two effects of a
\* transition
MaxList == IF MaxOuts > 2 THEN MaxOuts ELSE 2

\* C11: when two slow effects of one iteration each send one event, then,
\* unless a transition sets the fatal error, both events are eventually
\* dispatched, each by exactly one dispatch.
C11_BothDelivered ==
    \A it \in 1..MaxIter, j \in 1..MaxList, k \in 1..MaxList :
        (j < k /\ SlowOneStarted(it, j) /\ SlowOneStarted(it, k))
            ~> \/ /\ Cardinality(DispatchesOf(it, j)) = 1
                  /\ Cardinality(DispatchesOf(it, k)) = 1
               \/ FatalErr(state) # Nil
               \/ AtBound

\* the loop thread is inside a fast effect whose send cannot complete
FastSendBlocked ==
    /\ pc = "io"
    /\ ioRest # <<>>
    /\ Len(inChan) >= ChanCap

\* what remains of C11 when the runs in which a fast effect blocks the loop
\* are left aside
C11_DeliveredUnlessBlocked ==
    \A it \in 1..MaxIter, j \in 1..MaxList, k \in 1..MaxList :
        (j < k /\ SlowOneStarted(it, j) /\ SlowOneStarted(it, k))
            ~> \/ /\ Cardinality(DispatchesOf(it, j)) = 1
                  /\ Cardinality(DispatchesOf(it, k)) = 1
               \/ FatalErr(state) # Nil
               \/ AtBound
               \/ FastSendBlocked

(* ---------------- sends of fast effects: claim C18 ---------------- *)

\* C18: the loop thread does not stay inside a fast effect for ever: every
\* send of a fast effect completes and the Io returns.
C18_FastSendCompletes ==
    (pc = "io") ~> (pc # "io")

(* ---------------- the channel: claim C12 ---------------- *)

\* the events sent so far by the Io of the effect at position k of
\* iteration it, in the order sent
SentBy(it, k) ==
    LET ms == SelectSeq(sent, LAMBDA m : m.iter = it /\ m.idx = k)
    IN  [n \in 1..Len(ms) |-> ms[n].in]

\* the channel holds at most one event; what was sent is what was
\* dispatched, is held by the loop or is in the channel, in that order; and
\* of the events of a running Io those not yet sent are still to be sent
C12_NothingLost ==
    /\ Len(inChan) <= 1
    /\ sent = dispatched \o in \o inChan
    /\ \A g \in goroutines : SentBy(g.iter, g.idx) \o g.rest = Emits(g.out)
    /\ pc = "io" => SentBy(iters, idx) \o ioRest = Emits(outputs[idx])

\* while the channel is full no send completes and no sender gives up: the
\* only step that changes the channel is the loop's receive of its head
C12_FullBlocks ==
    Len(inChan) = 1 =>
        /\ sent' = sent
        /\ goroutines \subseteq goroutines'
        /\ pc = "io" /\ ioRest # <<>> => ioRest' = ioRest /\ pc' = "io"
        /\ \/ inChan' = inChan
           \/ inChan' = <<>> /\ in' = inChan /\ pc = "recv"

\* C12: the channel never holds more than one event, a send on the full
\* channel waits for the loop's receive, and no event is dropped,
\* overwritten or received twice.
C12_Backpressure ==
    /\ []C12_NothingLost
    /\ [][C12_FullBlocks]_vars

\* the channel is full, a slow effect waits to send and the loop is about
\* to receive
C12_Witness ==
    /\ Len(inChan) = 1
    /\ pc = "recv"
    /\ \E g \in goroutines : g.rest # <<>>

(* ---------------- the state: claims C13 to C15 ---------------- *)

\* what a dispatch of event e in state s is to return
Expect(s, e) ==
    LET c == Claimers(s, e)
    IN  IF c = {}
        THEN InUpdate(e, s)
        ELSE ReadyUpdate(Expected(s.waiters[Least(c)], e).ready, s)

\* a step is the loop's dispatch, and then state and outputs become what
\* the dispatch returns, or it leaves state and outputs alone
C13_DispatchOrUnchanged ==
    IF pc = "update" /\ pc' = "loop"
    THEN /\ state' = Expect(state, in[1].in).state
         /\ outputs' = Expect(state, in[1].in).outputs
    ELSE /\ state' = state
         /\ outputs' = outputs

\* C13: the state and the effect list change in the dispatch step only:
\* running or starting an effect, sending and receiving leave them alone.
C13_SingleWriter == [][C13_DispatchOrUnchanged]_vars

\* a dispatch changed the state while an Io was running in a goroutine and
\* an event was in the channel
C13_Witness ==
    /\ disp # <<>>
    /\ state # disp[1].S
    /\ goroutines # {}
    /\ inChan # <<>>

\* the first event ever sent
FirstTick == Msg("Tick", 1, 1, "FastTick")

\* the first iteration dispatched the Tick of a fast first effect from an
\* initial state without waiters, and no other effect has sent an event or
\* is running
TickOnly ==
    /\ dispatched = <<FirstTick>>
    /\ sent = <<FirstTick>>
    /\ goroutines = {}
    /\ disp[1].S = [waiters |-> <<>>, fatalErr |-> Nil, counter |-> 0]

\* C14: when the initial state has no waiters and the only event of the
\* first iteration is the Tick of a fast effect, then after that iteration
\* the counter is 1 and the effect list is empty, and the loop waits for an
\* event with no effect run again and nothing in the channel.
C14_TickScenario ==
    TickOnly =>
        /\ state = [waiters |-> <<>>, fatalErr |-> Nil, counter |-> 1]
        /\ outputs = <<>>
        /\ ran = <<>>
        /\ inChan = <<>>
        /\ in = <<>>
        /\ pc \in {"loop", "recv"}
        /\ pc = "recv" <=> iters = 2

\* the loop waits in its second iteration after the Tick of the first
C14_Witness ==
    /\ TickOnly
    /\ pc = "recv"
    /\ iters = 2

\* C15: the transition is given the state as the loop held it, and when no
\* waiter claims the event and the event's own Update leaves the waiter
\* list alone, the waiter list after the dispatch is the one before it.
C15_WaitersKept ==
    disp # <<>> =>
        LET d == disp[1]
        IN  /\ d.result = Expect(d.S, d.E)
            /\ state.waiters = d.result.state.waiters
            /\ (/\ Claimers(d.S, d.E) = {}
                /\ InUpdate(d.E, d.S).state.waiters = d.S.waiters) =>
                   state.waiters = d.S.waiters

\* a Timeout was dispatched while P waited for a Response, and P is still
\* in the list when the loop waits for the next event
C15_Witness ==
    /\ disp # <<>>
    /\ disp[1].E = "Timeout"
    /\ disp[1].S.waiters = <<"P">>
    /\ state.waiters = <<"P">>
    /\ pc = "recv"
    /\ iters = 2

(* ---------------- after the loop: claims C16 and C19 ---------------- *)

\* with the fatal error set nothing is held by the loop and at most one
\* event sent has not been dispatched
C16_AtMostOneAccepted ==
    FatalErr(state) # Nil =>
        /\ in = <<>>
        /\ Len(inChan) <= 1
        /\ Len(sent) - Len(dispatched) <= 1

\* with the fatal error set nothing more is dispatched or received, the
\* channel is never emptied, a goroutine goes away only by completing its
\* sends, and once the channel is full every sender stays as it is
C16_NoMoreDispatch ==
    FatalErr(state) # Nil =>
        /\ dispatched' = dispatched
        /\ in' = in
        /\ state' = state
        /\ Len(inChan') >= Len(inChan)
        /\ goroutines' # goroutines => Len(sent') = Len(sent) + 1
        /\ Len(inChan) = 1 => /\ inChan' = inChan
                              /\ goroutines' = goroutines
                              /\ sent' = sent

\* C16: once a dispatch has set the fatal error the slow effects still
\* running are left alone and may send, but no event is dispatched any
\* more, the channel takes at most one event and every later sender stays
\* blocked.
C16_DanglingSenders ==
    /\ []C16_AtMostOneAccepted
    /\ [][C16_NoMoreDispatch]_vars

\* Run has returned after a dispatch, an event lies in the channel and
\* another slow effect waits to send
C16_Witness ==
    /\ pc = "done"
    /\ dispatched # <<>>
    /\ inChan # <<>>
    /\ \E g \in goroutines : g.rest # <<>>

\* the state is the initial one and its fatal error is set
InitFatal ==
    /\ dispatched = <<>>
    /\ FatalErr(state) # Nil

\* from an initial state with the fatal error set no effect is run or
\* started, nothing is sent or received, and what Run returns is the error
C19_NothingRuns ==
    InitFatal =>
        /\ iters = 0
        /\ ran = <<>>
        /\ goroutines = {}
        /\ sent = <<>>
        /\ inChan = <<>>
        /\ in = <<>>
        /\ pc \in {"loop", "done"}
        /\ pc = "done" => ret = FatalErr(state)

\* C19: when the initial state has the fatal error set, Run returns that
\* error without entering the loop body.
C19_InitFatalReturns ==
    /\ []C19_NothingRuns
    /\ InitFatal ~> (pc = "done" /\ ret = FatalErr(state))

\* Run has returned the initial state's error and the two initial effects
\* were not run
C19_Witness ==
    /\ InitFatal
    /\ pc = "done"
    /\ ret = "broken"
    /\ Len(outputs) = 2

====
